---- MODULE Spec2Model ----
(***************************************************************************)
(* A model of the orb application: the submissions store (database.py)     *)
(* and the intake / retrieval handlers (app.py).                           *)
(*                                                                         *)
(* Python values are modelled by records:                                  *)
(*   a text value   [isNone, runs]  runs = run-length encoded characters   *)
(*   a stored name  [isNone, name]  name = <<>> for "" and <<n>> for the   *)
(*                                  n-th generated "<uuid4>.png"           *)
(***************************************************************************)
EXTENDS Integers, Sequences, FiniteSets, TLC

VARIABLES
    rows,        \* the submissions table: committed rows, in insertion order
    seq,         \* sqlite_sequence: the largest id ever assigned (AUTOINCREMENT)
    files,       \* the upload folder: the set of generated file numbers present
    nextUuid,    \* the number of uuid4() names generated so far
    last,        \* what the last completed operation was given, did and answered
    procs,       \* concurrent store calls: each caller's position and locals
    wlock,       \* the database write lock: its holder, or NoProc
    pending,     \* the row inserted by the open write transaction, if any
    log          \* what concurrent store calls committed, counted and returned

vars == <<rows, seq, files, nextUuid, last, procs, wlock, pending, log>>

----------------------------------------------------------------------------
(* Bounds of the model *)

MaxRows == 2
MaxCalls == 3

(* Program constants *)

MAX_TEXT == 2000
MAX_SIDE == 800
MAX_FILE_BYTES == 5242880

----------------------------------------------------------------------------
(* Python values *)

None == [isNone |-> TRUE, runs |-> <<>>]
Str(runs) == [isNone |-> FALSE, runs |-> runs]
NoName == [isNone |-> TRUE, name |-> <<>>]
Name(n) == [isNone |-> FALSE, name |-> n]

\* Python truthiness of an optional string: None and "" are falsy
TextTruthy(t) == ~t.isNone /\ Len(t.runs) > 0
NameTruthy(d) == ~d.isNone /\ Len(d.name) > 0

Run(c, n) == [c |-> c, n |-> n]
IsSpace(r) == r.c = " "

RECURSIVE LStrip(_)
LStrip(rs) ==
    IF rs = <<>> THEN <<>>
    ELSE IF IsSpace(Head(rs)) THEN LStrip(Tail(rs)) ELSE rs

RECURSIVE RStrip(_)
RStrip(rs) ==
    IF rs = <<>> THEN <<>>
    ELSE IF IsSpace(rs[Len(rs)]) THEN RStrip(SubSeq(rs, 1, Len(rs) - 1)) ELSE rs

\* str.strip(): leading and trailing whitespace removed
Strip(rs) == RStrip(LStrip(rs))

\* s[:k]: the first k characters
RECURSIVE Take(_, _)
Take(rs, k) ==
    IF rs = <<>> \/ k <= 0 THEN <<>>
    ELSE IF Head(rs).n <= k
         THEN <<Head(rs)>> \o Take(Tail(rs), k - Head(rs).n)
         ELSE <<Run(Head(rs).c, k)>>

----------------------------------------------------------------------------
(* Images.  A byte stream is described by what Pillow makes of it:         *)
(*   decodes  Image.open recognises a format in the header                 *)
(*   intact   Image.verify finds no structural error                       *)
(*   loads    the pixel data decodes (convert / thumbnail / save load it)  *)
(*   fmt, mode, w, h   format, colour mode and size of the decoded image   *)
(*   len      number of bytes;  hdr  bytes Image.open reads from a stream  *)

Bytes(decodes, intact, loads, fmt, mode, w, h, len, hdr) ==
    [decodes |-> decodes, intact |-> intact, loads |-> loads, fmt |-> fmt,
     mode |-> mode, w |-> w, h |-> h, len |-> len, hdr |-> hdr]

ALLOWED_EXTENSIONS == {"png", "jpg", "jpeg", "gif"}
\* a plausible slip: one format too many in the list
FormatsWithBmp == {"png", "jpeg", "gif", "bmp"}

\* the formats validate_image_file lets through
ALLOWED_FORMATS == {"png", "jpeg", "gif"}

\* str.lower() on the name segments and format names the model uses
Lower(s) ==
    CASE s = "PNG" -> "png"
      [] s = "JPG" -> "jpg"
      [] s = "JPEG" -> "jpeg"
      [] s = "GIF" -> "gif"
      [] s = "BMP" -> "bmp"
      [] s = "EXE" -> "exe"
      [] OTHER -> s

\* A filename is the sequence of its '.'-separated segments; <<>> is "".
\* '.' in filename and filename.rsplit('.', 1)[1].lower() in ALLOWED_EXTENSIONS
allowed_file(filename) ==
    Len(filename) > 1 /\ Lower(filename[Len(filename)]) \in ALLOWED_EXTENSIONS

Abs(i) == IF i < 0 THEN -i ELSE i

\* Image.thumbnail((MAX_SIDE, MAX_SIDE)): the size it leaves the image with.
\* round_aspect picks floor or ceil of the scaled side, whichever keeps the
\* aspect ratio closer (floor on a tie), and never less than 1.
ThumbWidth(w, h) ==
    LET f == (MAX_SIDE * w) \div h
        c == IF f * h = MAX_SIDE * w THEN f ELSE f + 1
        pick == IF Abs(MAX_SIDE * w - f * h) <= Abs(MAX_SIDE * w - c * h)
                THEN f ELSE c
    IN  IF pick < 1 THEN 1 ELSE pick

ThumbHeight(w, h) ==
    LET f == (MAX_SIDE * h) \div w
        c == IF f * w = MAX_SIDE * h THEN f ELSE f + 1
        pick == IF f = 0 THEN f
                ELSE IF Abs(w * f - MAX_SIDE * h) * c <= Abs(w * c - MAX_SIDE * h) * f
                     THEN f ELSE c
    IN  IF pick < 1 THEN 1 ELSE pick

\* a plausible slip: each side clamped on its own, the aspect ratio lost
ThumbnailClamped(w, h) ==
    <<IF w > MAX_SIDE THEN MAX_SIDE ELSE w, IF h > MAX_SIDE THEN MAX_SIDE ELSE h>>

Thumbnail(w, h) ==
    IF MAX_SIDE >= w /\ MAX_SIDE >= h THEN <<w, h>>
    ELSE IF h >= w THEN <<ThumbWidth(w, h), MAX_SIDE>>
         ELSE <<MAX_SIDE, ThumbHeight(w, h)>>

----------------------------------------------------------------------------
(* Uploaded files.  An upload is [present, filename, bytes]; bool(upload)  *)
(* is bool(upload.filename).  Its stream position is passed and returned.  *)

NoBytes == Bytes(FALSE, FALSE, FALSE, "none", "none", 0, 0, 0, 0)
NoUpload == [present |-> FALSE, filename |-> <<>>, bytes |-> NoBytes]
Upload(filename, bytes) == [present |-> TRUE, filename |-> filename, bytes |-> bytes]

UploadTruthy(file) == file.present /\ Len(file.filename) > 0

\* a plausible slip: the seek left out
RewindForgotten(pos) == pos

\* file.seek(0)
Rewind(pos) == 0

\* file.read(): everything from the position to the end
ReadAll(bytes, pos) == [from |-> pos, len |-> bytes.len - pos, pos |-> bytes.len]

\* Image.open on a stream seeks to the start itself, then reads the header
OpenPos(bytes) == bytes.hdr

Verdict(ok, msg, pos, starts) == [ok |-> ok, msg |-> msg, pos |-> pos, starts |-> starts]

\* validate_image_file(file) with the stream at pos0.  starts lists where the
\* full read, the verify pass and the format check began reading.
validate_image_file(file, pos0) ==
    IF ~UploadTruthy(file) THEN Verdict(FALSE, "No file provided", pos0, <<>>)
    ELSE IF ~allowed_file(file.filename)
    THEN Verdict(FALSE, "Invalid file type. Only PNG, JPG, and GIF allowed", pos0, <<>>)
    ELSE
      LET content == ReadAll(file.bytes, pos0)
          p1 == Rewind(content.pos)
          \* the copy io.BytesIO(file_content) is read from its own start
          copyOk == file.bytes.decodes /\ content.from = 0
          p2 == Rewind(p1)
          p3 == OpenPos(file.bytes)
      IN  IF ~copyOk \/ ~file.bytes.intact
          THEN Verdict(FALSE, "File is not a valid image", p1, <<pos0, 0>>)
          ELSE IF ~file.bytes.decodes
          THEN Verdict(FALSE, "File is not a valid image", p2, <<pos0, 0, p2>>)
          ELSE IF Lower(file.bytes.fmt) \notin ALLOWED_FORMATS
          THEN Verdict(FALSE, "File format not supported", p3, <<pos0, 0, p2>>)
          ELSE IF content.len > MAX_FILE_BYTES
          THEN Verdict(FALSE, "File too large. Maximum size is 5MB", p3, <<pos0, 0, p2>>)
          ELSE Verdict(TRUE, "Valid image", Rewind(p3), <<pos0, 0, p2>>)

----------------------------------------------------------------------------
(* Saving.  Outcome of a function that may write one image file:           *)
(*   name    the generated name returned, or NoName                        *)
(*   err     the error message returned, "" for none                       *)
(*   wrote   whether image.save put the file in the upload folder          *)
(*   uuids   how many uuid4() names it generated                           *)
(*   w, h, mode   size and colour mode of the saved image                  *)
(*   opened, closed   image handles it opened and explicitly closed        *)

Saved(n, w, h, mode, opened, closed) ==
    [name |-> Name(<<n>>), err |-> "", wrote |-> TRUE, uuids |-> 1,
     w |-> w, h |-> h, mode |-> mode, opened |-> opened, closed |-> closed]
NotSaved(err, uuids, opened, closed) ==
    [name |-> NoName, err |-> err, wrote |-> FALSE, uuids |-> uuids,
     w |-> 0, h |-> 0, mode |-> "none", opened |-> opened, closed |-> closed]

\* sanitize_and_process_image(file); n numbers the next uuid4() name and
\* saveFails says whether image.save raises (an I/O failure)
sanitize_and_process_image(file, n, saveFails) ==
    LET b == file.bytes
        mode == IF b.mode \notin {"RGB", "L"} THEN "RGB" ELSE b.mode
        size == Thumbnail(b.w, b.h)
    IN  IF ~b.decodes THEN NotSaved("Error processing image", 0, 0, 0)
        ELSE IF ~b.loads THEN NotSaved("Error processing image", 0, 1, 0)
        ELSE IF saveFails THEN NotSaved("Error processing image", 1, 1, 0)
        ELSE Saved(n, size[1], size[2], mode, 1, 0)

(* A canvas payload is [kind, prefix, comma, b64ok, bytes]:                *)
(*   kind    "absent" (no form field), "empty" (""), "null" (the literal   *)
(*           'null') or "data"                                             *)
(*   prefix  it starts with 'data:image';  comma  it contains a ','        *)
(*   b64ok   base64.b64decode accepts the part after the first comma       *)
(*   bytes   what the decoded body is                                      *)

Canvas(kind, prefix, comma, b64ok, bytes) ==
    [kind |-> kind, prefix |-> prefix, comma |-> comma, b64ok |-> b64ok, bytes |-> bytes]

CanvasTruthy(c) == c.kind \notin {"absent", "empty"}

\* process_canvas_drawing(canvas_data)
process_canvas_drawing(c, n, saveFails) ==
    LET b == c.bytes
        size == Thumbnail(b.w, b.h)
    IN  IF ~CanvasTruthy(c) \/ ~c.prefix THEN NotSaved("Invalid canvas data", 0, 0, 0)
        ELSE IF ~c.comma THEN NotSaved("Error processing canvas", 0, 0, 0)
        ELSE IF ~c.b64ok THEN NotSaved("Invalid base64 data", 0, 0, 0)
        ELSE IF ~b.decodes THEN NotSaved("Canvas data is not a valid image", 0, 0, 0)
        ELSE IF ~b.intact THEN NotSaved("Canvas data is not a valid image", 0, 1, 1)
        ELSE IF b.mode # "RGB" /\ ~b.loads THEN NotSaved("Error processing canvas", 0, 2, 1)
        ELSE IF ~b.loads \/ saveFails THEN NotSaved("Error processing canvas", 1, 2, 1)
        ELSE Saved(n, size[1], size[2], "RGB", 2, 1)

----------------------------------------------------------------------------
(* The submissions store (database.py).  A store call is given a fault:    *)
(* "none", "connect" (sqlite3.connect raises) or "execute" (the statement  *)
(* or the commit raises; nothing is committed).                            *)

Faults == {"none", "connect", "execute"}

Row(id, text, doodle, type) ==
    [id |-> id, text_content |-> text, doodle_filename |-> doodle, submission_type |-> type]

\* the if / elif chain of add_submission; "invalid" is the else branch
SubmissionType(text, doodle) ==
    IF TextTruthy(text) /\ NameTruthy(doodle) THEN "both"
    ELSE IF TextTruthy(text) THEN "text"
    ELSE IF NameTruthy(doodle) THEN "doodle"
    ELSE "invalid"

\* INTEGER PRIMARY KEY AUTOINCREMENT: one more than the largest id ever used
NextId(s) == s + 1

\* Outcome of a store call: raised, the value returned (id 0 stands for None),
\* the table and sequence it leaves, connections opened and explicitly closed
StoreResult(raised, id, table, s, opened, closed) ==
    [raised |-> raised, id |-> id, rows |-> table, seq |-> s,
     opened |-> opened, closed |-> closed]

add_submission(text, doodle, table, s, fault) ==
    LET type == SubmissionType(text, doodle)
        id == NextId(s)
    IN  IF fault = "connect" THEN StoreResult(TRUE, 0, table, s, 0, 0)
        ELSE IF type = "invalid" THEN StoreResult(FALSE, 0, table, s, 1, 0)
        ELSE IF fault = "execute" THEN StoreResult(TRUE, 0, table, s, 1, 0)
        ELSE StoreResult(FALSE, id, Append(table, Row(id, text, doodle, type)), id, 1, 1)

\* a plausible slip: ORDER BY id instead of ORDER BY RANDOM()
FirstRowOnly(table) == IF table = <<>> THEN {} ELSE {table[1]}

\* ORDER BY RANDOM() LIMIT 1: the rows the query may return
RandomCandidates(table) == {table[i] : i \in 1..Len(table)}

NoRow == Row(0, None, NoName, "none")

\* get_random_submission(): found says whether a dict (not None) is returned
ReadResult(raised, found, row, count, opened, closed) ==
    [raised |-> raised, found |-> found, row |-> row, count |-> count,
     opened |-> opened, closed |-> closed]

get_random_submission(table, fault, pick) ==
    IF fault = "connect" THEN ReadResult(TRUE, FALSE, NoRow, 0, 0, 0)
    ELSE IF fault = "execute" THEN ReadResult(TRUE, FALSE, NoRow, 0, 1, 0)
    ELSE IF RandomCandidates(table) = {} THEN ReadResult(FALSE, FALSE, NoRow, 0, 1, 1)
    ELSE ReadResult(FALSE, TRUE, pick, 0, 1, 1)

\* get_submission_count(): SELECT COUNT(*)
get_submission_count(table, fault) ==
    IF fault = "connect" THEN ReadResult(TRUE, FALSE, NoRow, 0, 0, 0)
    ELSE IF fault = "execute" THEN ReadResult(TRUE, FALSE, NoRow, 0, 1, 0)
    ELSE ReadResult(FALSE, FALSE, NoRow, Len(table), 1, 1)

----------------------------------------------------------------------------
(* The handlers (app.py).  A request is [text, canvas, file]; text is None *)
(* when the form has no text_content field.                                *)

Request(text, canvas, file) == [text |-> text, canvas |-> canvas, file |-> file]

NoVerdict == Verdict(FALSE, "not called", 0, <<>>)
NoSave == NotSaved("", 0, 0, 0)
NoStore(table, s) == StoreResult(FALSE, 0, table, s, 0, 0)

\* canvas_data and canvas_data != 'null'
HasCanvas(req) == CanvasTruthy(req.canvas) /\ req.canvas.kind # "null"
\* uploaded_file and uploaded_file.filename
HasFile(req) == UploadTruthy(req.file)

\* a plausible slip: the sentinel test inverted
BothInputsSentinelInverted(req) ==
    CanvasTruthy(req.canvas) /\ req.canvas.kind = "null" /\ HasFile(req)

\* canvas_data and canvas_data != 'null' and uploaded_file and uploaded_file.filename
BothInputs(req) == HasCanvas(req) /\ HasFile(req)

\* text_content.strip()[:2000], and None if that is empty
SanitizeText(runs) ==
    LET t == Take(Strip(runs), MAX_TEXT)
    IN  IF t = <<>> THEN None ELSE Str(t)

\* What submit_content answers and does:
\*   status, msg   the HTTP status and the error or 'received'
\*   calls         the functions it called, in order
\*   verdict, saved, store   what those calls returned
\*   text          the text_content handed to add_submission
Response(status, msg, calls, verdict, saved, store, text) ==
    [status |-> status, msg |-> msg, calls |-> calls, verdict |-> verdict,
     saved |-> saved, store |-> store, text |-> text]

submit_content(req, table, s, n, saveFails, fault) ==
    LET stripped == Strip(IF req.text.isNone THEN <<>> ELSE req.text.runs)
        none == NoStore(table, s)
    IN
    IF BothInputs(req)
    THEN Response(400, "Cannot submit both drawing and file upload. Choose one.",
                  <<>>, NoVerdict, NoSave, none, None)
    ELSE
    LET verdict == IF ~HasCanvas(req) /\ HasFile(req)
                   THEN validate_image_file(req.file, 0) ELSE NoVerdict
        saved == IF HasCanvas(req) THEN process_canvas_drawing(req.canvas, n + 1, saveFails)
                 ELSE IF HasFile(req) /\ verdict.ok
                      THEN sanitize_and_process_image(req.file, n + 1, saveFails)
                      ELSE NoSave
        calls == IF HasCanvas(req) THEN <<"process_canvas_drawing">>
                 ELSE IF HasFile(req) /\ verdict.ok
                      THEN <<"validate_image_file", "sanitize_and_process_image">>
                      ELSE IF HasFile(req) THEN <<"validate_image_file">> ELSE <<>>
        text == IF stripped # <<>> THEN SanitizeText(stripped) ELSE Str(stripped)
        store == add_submission(text, saved.name, table, s, fault)
    IN
    IF HasCanvas(req) /\ saved.err # ""
    THEN Response(400, saved.err, calls, verdict, saved, none, None)
    ELSE IF ~HasCanvas(req) /\ HasFile(req) /\ ~verdict.ok
    THEN Response(400, verdict.msg, calls, verdict, saved, none, None)
    ELSE IF ~HasCanvas(req) /\ HasFile(req) /\ saved.err # ""
    THEN Response(400, saved.err, calls, verdict, saved, none, None)
    ELSE IF stripped = <<>> /\ ~NameTruthy(saved.name)
    THEN Response(400, "Must provide either text or image", calls, verdict, saved, none, None)
    ELSE IF store.raised
    THEN Response(500, "Something went wrong",
                  Append(calls, "add_submission"), verdict, saved, store, text)
    ELSE IF store.id = 0
    THEN Response(500, "Failed to save submission",
                  Append(calls, "add_submission"), verdict, saved, store, text)
    ELSE Response(200, "received",
                  Append(calls, "add_submission"), verdict, saved, store, text)

\* scry_orb: 200 with the submission, 200 'empty', or 500 when the read raises
scry_orb(table, fault, pick) ==
    LET r == get_random_submission(table, fault, pick)
    IN  IF r.raised THEN [status |-> 500, success |-> FALSE, msg |-> "error", read |-> r]
        ELSE IF r.found THEN [status |-> 200, success |-> TRUE, msg |-> "submission", read |-> r]
        ELSE [status |-> 200, success |-> FALSE, msg |-> "empty", read |-> r]

\* get_stats: 200 with the count, or 500 when the read raises
get_stats(table, fault) ==
    LET r == get_submission_count(table, fault)
    IN  IF r.raised THEN [status |-> 500, success |-> FALSE, msg |-> "error", read |-> r]
        ELSE [status |-> 200, success |-> TRUE, msg |-> "count", read |-> r]

----------------------------------------------------------------------------
(* Inputs the requests are drawn from *)

TextAbsent == None
TextEmpty == Str(<<>>)
TextBlank == Str(<<Run(" ", 3)>>)
TextHello == Str(<<Run(" ", 1), Run("a", 5), Run(" ", 2)>>)
TextLong == Str(<<Run("a", MAX_TEXT + 1)>>)
\* trimmed, its first MAX_TEXT characters end in a space
TextEdge == Str(<<Run(" ", 2), Run("a", MAX_TEXT - 1), Run(" ", 1), Run("b", 4), Run(" ", 1)>>)
Texts == {TextAbsent, TextEmpty, TextBlank, TextHello, TextLong, TextEdge}

PngSmall == Bytes(TRUE, TRUE, TRUE, "PNG", "RGBA", 1, 1, 70, 33)
GifWide == Bytes(TRUE, TRUE, TRUE, "GIF", "P", 1600, 900, 4000, 13)
JpegGray == Bytes(TRUE, TRUE, TRUE, "JPEG", "L", 800, 800, 9000, 20)
\* a truncated JPEG: verify() passes, loading the pixels raises
JpegCut == Bytes(TRUE, TRUE, FALSE, "JPEG", "RGB", 640, 480, 900, 20)
\* a PNG with a bad chunk: verify() raises
PngBad == Bytes(TRUE, FALSE, FALSE, "PNG", "RGB", 10, 10, 60, 33)
BmpGood == Bytes(TRUE, TRUE, TRUE, "BMP", "RGB", 20, 20, 1254, 14)
Garbage == Bytes(FALSE, FALSE, FALSE, "none", "none", 0, 0, 12, 12)
PngHuge == Bytes(TRUE, TRUE, TRUE, "PNG", "RGB", 700, 700, MAX_FILE_BYTES + 1, 33)

Uploads ==
    { NoUpload,
      Upload(<<>>, PngSmall),
      Upload(<<"x", "png">>, PngSmall),
      Upload(<<"x", "PNG">>, GifWide),
      Upload(<<"x", "jpg">>, JpegCut),
      Upload(<<"x", "gif">>, PngBad),
      Upload(<<"x", "png">>, BmpGood),
      Upload(<<"x", "exe">>, PngSmall) }

NoCanvas == Canvas("absent", FALSE, FALSE, FALSE, NoBytes)
Canvases ==
    { NoCanvas,
      Canvas("null", FALSE, FALSE, FALSE, NoBytes),
      Canvas("data", TRUE, TRUE, TRUE, PngSmall),
      Canvas("data", TRUE, TRUE, TRUE, GifWide),
      Canvas("data", TRUE, FALSE, FALSE, NoBytes),
      Canvas("data", TRUE, TRUE, TRUE, Garbage) }

Requests == {Request(t, c, f) : t \in Texts, c \in Canvases, f \in Uploads}

----------------------------------------------------------------------------
(* The state after an operation returned.  conns and images are the        *)
(* handles the operation opened that are still open when it returns: the   *)
(* ones it did not close explicitly, unless the runtime's finalizers have  *)
(* already released them (leftOpen chooses).                               *)

NoProc == 0
NoRequest == Request(None, NoCanvas, NoUpload)
NoRead == ReadResult(FALSE, FALSE, NoRow, 0, 0, 0)

Last(op, req, fault, resp, read, conns, images) ==
    [op |-> op, req |-> req, fault |-> fault, status |-> resp.status, msg |-> resp.msg,
     calls |-> resp.calls, verdict |-> resp.verdict, saved |-> resp.saved,
     text |-> resp.text, id |-> resp.store.id, raised |-> resp.store.raised,
     read |-> read, conns |-> conns, images |-> images]

NoResponse == Response(0, "", <<>>, NoVerdict, NoSave, NoStore(<<>>, 0), None)

\* finalized: the runtime has already finalized the handles dropped unclosed
LeftOpen(opened, closed, finalized) == IF finalized THEN 0 ELSE opened - closed

Idle == Last("idle", NoRequest, "none", NoResponse, NoRead, 0, 0)

Init ==
    /\ rows = <<>>
    /\ seq = 0
    /\ files = {}
    /\ nextUuid = 0
    /\ last = Idle
    /\ procs = <<>>
    /\ wlock = NoProc
    /\ pending = <<>>
    /\ log = {}

\* One fault per request covers every combination: a failing image.save
\* returns before the store is reached.
SubmitFaults == Faults \cup {"save"}
StoreFault(fault) == IF fault \in Faults THEN fault ELSE "none"

\* POST /api/submit, from the request to the response
Submit ==
    /\ last = Idle
    /\ Len(rows) < MaxRows
    /\ nextUuid < MaxRows
    /\ \E req \in Requests, fault \in SubmitFaults, finalized \in BOOLEAN :
         LET r == submit_content(req, rows, seq, nextUuid, fault = "save", StoreFault(fault))
         IN  /\ rows' = r.store.rows
             /\ seq' = r.store.seq
             /\ files' = IF r.saved.wrote THEN files \cup {nextUuid + 1} ELSE files
             /\ nextUuid' = nextUuid + r.saved.uuids
             /\ last' = Last("submit", req, fault, r, NoRead,
                             LeftOpen(r.store.opened, r.store.closed, finalized),
                             LeftOpen(r.saved.opened, r.saved.closed, finalized))
    /\ UNCHANGED <<procs, wlock, pending, log>>

\* GET /api/scry
Scry ==
    /\ last = Idle
    /\ \E fault \in Faults, pick \in RandomCandidates(rows) \cup {NoRow}, finalized \in BOOLEAN :
         LET r == scry_orb(rows, fault, pick)
         IN  /\ pick = NoRow <=> RandomCandidates(rows) = {}
             /\ last' = [Last("scry", NoRequest, fault, NoResponse, r.read,
                              LeftOpen(r.read.opened, r.read.closed, finalized), 0)
                           EXCEPT !.status = r.status, !.msg = r.msg]
    /\ UNCHANGED <<rows, seq, files, nextUuid, procs, wlock, pending, log>>

\* GET /api/stats
Stats ==
    /\ last = Idle
    /\ \E fault \in Faults, finalized \in BOOLEAN :
         LET r == get_stats(rows, fault)
         IN  last' = [Last("stats", NoRequest, fault, NoResponse, r.read,
                           LeftOpen(r.read.opened, r.read.closed, finalized), 0)
                        EXCEPT !.status = r.status, !.msg = r.msg]
    /\ UNCHANGED <<rows, seq, files, nextUuid, procs, wlock, pending, log>>

\* The response has been sent: the request's locals are gone
Respond ==
    /\ last # Idle
    /\ last.op \in {"submit", "scry", "stats", "add_submission"}
    /\ last' = Idle
    /\ UNCHANGED <<rows, seq, files, nextUuid, procs, wlock, pending, log>>

Next == Submit \/ Scry \/ Stats \/ Respond

Spec == Init /\ [][Next]_vars

----------------------------------------------------------------------------
(* Direct calls of the store, beside the handlers *)

DirectTexts == {None, TextEmpty, Str(<<Run("a", 5)>>)}
\* None, "" and a name that is not a generated one
DirectNames == {NoName, Name(<<>>), Name(<<0>>)}

AddDirect ==
    /\ last = Idle
    /\ Len(rows) < MaxRows
    /\ \E text \in DirectTexts, doodle \in DirectNames, fault \in Faults, finalized \in BOOLEAN :
         LET r == add_submission(text, doodle, rows, seq, fault)
             resp == Response(0, "", <<"add_submission">>, NoVerdict, NoSave, r, text)
         IN  /\ rows' = r.rows
             /\ seq' = r.seq
             /\ last' = [Last("add_submission", NoRequest, fault, resp, NoRead,
                              LeftOpen(r.opened, r.closed, finalized), 0)
                           EXCEPT !.saved.name = doodle]
    /\ UNCHANGED <<files, nextUuid, procs, wlock, pending, log>>

NextStore == Next \/ AddDirect

SpecStore == Init /\ [][NextStore]_vars

----------------------------------------------------------------------------
(* Claims about the handlers and the store *)

RowSet == {rows[i] : i \in 1..Len(rows)}

\* the kind the null pattern of a row's two fields calls for
KindOf(r) ==
    IF ~r.text_content.isNone /\ ~r.doodle_filename.isNone THEN "both"
    ELSE IF ~r.text_content.isNone THEN "text"
    ELSE IF ~r.doodle_filename.isNone THEN "doodle"
    ELSE "invalid"

\* C1: every row has a non-null text_content or a non-null doodle_filename,
\* and its submission_type is the one its non-null fields call for.
C1_RowsConsistent ==
    \A r \in RowSet :
        /\ ~r.text_content.isNone \/ ~r.doodle_filename.isNone
        /\ r.submission_type = KindOf(r)

ReferencedFiles ==
    {r.doodle_filename.name[1] : r \in {x \in RowSet : NameTruthy(x.doodle_filename)}}

\* C2: a file is in the upload folder if and only if some row has it as
\* doodle_filename, whatever step of a request failed.
C2_FilesIffRows == files = ReferencedFiles

\* C4: a request carrying both a canvas payload and an uploaded file is
\* answered 'choose one' with status 400 before any processing function is
\* called: no file is written, no name generated and no row inserted.
C4_ChooseOneFirst ==
    [][ (last'.op = "submit" /\ HasCanvas(last'.req) /\ HasFile(last'.req))
        => /\ last'.status = 400
           /\ last'.msg = "Cannot submit both drawing and file upload. Choose one."
           /\ last'.calls = <<>>
           /\ files' = files /\ nextUuid' = nextUuid
           /\ rows' = rows /\ seq' = seq ]_vars

C4_Witness ==
    /\ last.op = "submit"
    /\ last.req.canvas.kind = "data" /\ last.req.canvas.bytes = PngSmall
    /\ last.req.file = Upload(<<"x", "png">>, PngSmall)
    /\ last.req.text = TextHello
    /\ last.status = 400

IsBlank(t) == t.isNone \/ Strip(t.runs) = <<>>

\* C5: the row stored by an accepted request has text_content null when the
\* submitted text is absent, empty or all whitespace, and otherwise the
\* trimmed text cut to at most 2000 characters.
C5_StoredText ==
    (last.op = "submit" /\ last.status = 200)
        => /\ rows # <<>>
           /\ rows[Len(rows)].id = last.id
           /\ rows[Len(rows)].text_content =
                IF IsBlank(last.req.text) THEN None
                ELSE Str(Take(Strip(last.req.text.runs), MAX_TEXT))

\* C6: a scry read that does not fail answers 'empty' exactly when the table
\* has no rows and otherwise returns one stored row, any stored row being a
\* possible result; a read that fails answers with an error, status 500.
C6_RandomRead ==
    /\ RandomCandidates(rows) = RowSet
    /\ last.op = "scry" =>
         /\ last.fault # "none" <=> last.status = 500
         /\ last.status = 500 => (last.msg = "error" /\ last.read.raised /\ ~last.read.found)
         /\ last.fault = "none" =>
              /\ last.status = 200
              /\ ~last.read.found <=> rows = <<>>
              /\ last.msg = "empty" <=> rows = <<>>
              /\ last.read.found => (last.msg = "submission" /\ last.read.row \in RowSet)

\* the read returned the second of two stored rows
C6_Witness ==
    /\ last.op = "scry" /\ last.read.found
    /\ Len(rows) = 2 /\ last.read.row = rows[2]

\* C9: when an operation returns, no connection and no image handle that it
\* opened is still open.
C9_NothingLeftOpen == last.conns = 0 /\ last.images = 0

\* C10: when validate_image_file accepts, the upload's stream is at position
\* 0, and the full read, the verify pass and the format check each began at 0.
C10_StreamRewound ==
    (last.op = "submit" /\ last.verdict.ok)
        => /\ last.verdict.pos = 0
           /\ last.verdict.starts = <<0, 0, 0>>

C10_Witness ==
    /\ last.op = "submit" /\ last.verdict.ok
    /\ last.req.file = Upload(<<"x", "PNG">>, GifWide)
    /\ last.calls = <<"validate_image_file", "sanitize_and_process_image", "add_submission">>
    /\ last.status = 200

----------------------------------------------------------------------------
(* validate_image_file on its own: every name paired with every stream *)

ValidateNames ==
    { <<>>, <<"png">>, <<"x", "png">>, <<"x", "PNG">>, <<"x", "jpg">>, <<"x", "jpeg">>,
      <<"x", "JPG">>, <<"x", "gif">>, <<"x", "exe">>, <<"x", "bmp">>,
      <<"a", "png", "exe">>, <<"a", "exe", "GIF">> }
ValidateBytes == {PngSmall, GifWide, JpegGray, JpegCut, PngBad, BmpGood, Garbage, PngHuge}

InitValidate ==
    /\ rows = <<>> /\ seq = 0 /\ files = {} /\ nextUuid = 0
    /\ procs = <<>> /\ wlock = NoProc /\ pending = <<>> /\ log = {}
    /\ \E name \in ValidateNames, bytes \in ValidateBytes :
         last = [op |-> "call", file |-> Upload(name, bytes), verdict |-> NoVerdict]

Validate ==
    /\ last.op = "call"
    /\ last' = [op |-> "validated", file |-> last.file,
                verdict |-> validate_image_file(last.file, 0)]
    /\ UNCHANGED <<rows, seq, files, nextUuid, procs, wlock, pending, log>>

SpecValidate == InitValidate /\ [][Validate]_vars

\* the format an extension declares
ExtFormat(ext) ==
    CASE ext = "png" -> "png"
      [] ext \in {"jpg", "jpeg"} -> "jpeg"
      [] ext = "gif" -> "gif"
      [] OTHER -> "none"

DeclaredExt(file) == Lower(file.filename[Len(file.filename)])

\* the call is one the claim covers: an allowed extension, a decodable stream
C3_Covered ==
    /\ last.op = "validated"
    /\ Len(last.file.filename) > 1
    /\ DeclaredExt(last.file) \in {"png", "jpg", "jpeg", "gif"}
    /\ last.file.bytes.decodes

\* C3 as stated: with an allowed extension and a stream that decodes,
\* validate_image_file rejects whenever the decoded format differs from the
\* format the extension declares, and accepts only when the two agree.
C3_RejectsMismatch ==
    C3_Covered =>
        (last.verdict.ok => Lower(last.file.bytes.fmt) = ExtFormat(DeclaredExt(last.file)))

\* C3 as amended: with an allowed extension and a stream that decodes,
\* validate_image_file accepts exactly when the stream passes verify(), its
\* decoded format is one of png, jpeg, gif and it has at most 5 MB; it never
\* compares the decoded format with the extension.
C3_AcceptsAllowedFormats ==
    C3_Covered =>
        (last.verdict.ok <=>
            /\ last.file.bytes.intact
            /\ Lower(last.file.bytes.fmt) \in {"png", "jpeg", "gif"}
            /\ last.file.bytes.len <= MAX_FILE_BYTES)

\* a GIF stream named x.PNG has been accepted
C3_Witness ==
    /\ last.op = "validated"
    /\ last.file = Upload(<<"x", "PNG">>, GifWide)
    /\ last.verdict.ok

----------------------------------------------------------------------------
(* The two functions that save an image, on images of many sizes *)

SmallSides == 4

Sides ==
    (1..SmallSides) \cup
    { MAX_SIDE - 1, MAX_SIDE, MAX_SIDE + 1, MAX_SIDE + 2, 2 * MAX_SIDE - 1, 2 * MAX_SIDE,
      2 * MAX_SIDE + 1, 3 * MAX_SIDE, 64000, 100000 }

InitImage ==
    /\ rows = <<>> /\ seq = 0 /\ files = {} /\ nextUuid = 0
    /\ procs = <<>> /\ wlock = NoProc /\ pending = <<>> /\ log = {}
    /\ \E w \in Sides, h \in Sides :
         last = [op |-> "image", saved |-> NoSave,
                 bytes |-> Bytes(TRUE, TRUE, TRUE, "PNG", "RGBA", w, h, 70, 33)]

SanitizeUpload ==
    /\ last.op = "image"
    /\ LET r == sanitize_and_process_image(Upload(<<"x", "png">>, last.bytes), nextUuid + 1, FALSE)
       IN  /\ last' = [last EXCEPT !.op = "sanitized", !.saved = r]
           /\ files' = IF r.wrote THEN files \cup {nextUuid + 1} ELSE files
           /\ nextUuid' = nextUuid + r.uuids
    /\ UNCHANGED <<rows, seq, procs, wlock, pending, log>>

DrawCanvas ==
    /\ last.op = "image"
    /\ LET r == process_canvas_drawing(Canvas("data", TRUE, TRUE, TRUE, last.bytes),
                                       nextUuid + 1, FALSE)
       IN  /\ last' = [last EXCEPT !.op = "drawn", !.saved = r]
           /\ files' = IF r.wrote THEN files \cup {nextUuid + 1} ELSE files
           /\ nextUuid' = nextUuid + r.uuids
    /\ UNCHANGED <<rows, seq, procs, wlock, pending, log>>

NextImage == SanitizeUpload \/ DrawCanvas

SpecImage == InitImage /\ [][NextImage]_vars

\* C8: the saved image has both sides between 1 and 800; an input with both
\* sides at most 800 keeps its size (so saving a saved image again keeps it);
\* otherwise the larger side becomes at most 800 and the other side is within
\* one pixel of the value that preserves the aspect ratio.
C8_SizeBounded ==
    (last.op \in {"sanitized", "drawn"} /\ last.saved.wrote) =>
        LET w == last.bytes.w
            h == last.bytes.h
            ow == last.saved.w
            oh == last.saved.h
        IN  /\ 1 <= ow /\ ow <= 800
            /\ 1 <= oh /\ oh <= 800
            /\ (w <= 800 /\ h <= 800) => (ow = w /\ oh = h)
            /\ Thumbnail(ow, oh) = <<ow, oh>>
            /\ (w > 800 /\ w >= h) => Abs(oh * w - ow * h) < w
            /\ (h > 800 /\ h >= w) => Abs(ow * h - oh * w) < h

\* an image wider than 800 and far from square has been saved
C8_Witness ==
    /\ last.op \in {"sanitized", "drawn"} /\ last.saved.wrote
    /\ last.bytes.w = 2 * MAX_SIDE + 1 /\ last.bytes.h = 3
    /\ files # {}

----------------------------------------------------------------------------
(* Concurrent store calls.  Each caller makes one call of add_submission,  *)
(* get_random_submission or get_submission_count on its own connection     *)
(* and runs it statement by statement.  SQLite lets one connection write   *)
(* at a time: the INSERT opens a transaction that holds the write lock     *)
(* until conn.commit(); a second writer finds the database locked and its  *)
(* execute raises.  Readers see committed rows only.                       *)
(* log records the commits, the counts read and the ids returned, each     *)
(* stamped with the number of commits made before it.                      *)

Callers == 1..MaxCalls

Caller(pc, op, text, doodle, rowid, sid) ==
    [pc |-> pc, op |-> op, text |-> text, doodle |-> doodle, rowid |-> rowid, sid |-> sid]

\* each caller's text is its own, so a row tells who inserted it
CallerText(p) == Str(<<Run("a", p)>>)

CallerName(p) == Name(<<p>>)

InitConc ==
    /\ rows = <<>> /\ seq = 0 /\ files = {} /\ nextUuid = 0
    /\ last = Idle
    /\ procs = [p \in Callers |-> Caller("idle", "none", None, NoName, 0, 0)]
    /\ wlock = NoProc
    /\ pending = <<>>
    /\ log = {}

Commits == {e \in log : e.ev = "commit"}
Event(ev, p, id) == [ev |-> ev, p |-> p, id |-> id, at |-> Cardinality(Commits)]

\* a plausible slip: the id taken from the table's sequence, not the cursor
LastIdOfTable(p) == seq

\* cursor.lastrowid: the id of the row this cursor's INSERT made
lastrowid(p) == procs[p].rowid

\* SELECT COUNT(*) sees the committed rows
CountCommitted == Len(rows)

\* conn = sqlite3.connect(DATABASE), for an add_submission call
ConnectAdd(p) ==
    /\ procs[p].pc = "idle"
    /\ \E args \in {<<None, NoName>>, <<CallerText(p), NoName>>, <<TextEmpty, CallerName(p)>>} :
         procs' = [procs EXCEPT ![p] = Caller("connected", "add", args[1], args[2], 0, 0)]
    /\ UNCHANGED <<rows, seq, files, nextUuid, last, wlock, pending, log>>

\* conn = sqlite3.connect(DATABASE), for one of the two reads
ConnectRead(p) ==
    /\ procs[p].pc = "idle"
    /\ \E op \in {"random", "count"} :
         procs' = [procs EXCEPT ![p] = Caller("connected", op, None, NoName, 0, 0)]
    /\ UNCHANGED <<rows, seq, files, nextUuid, last, wlock, pending, log>>

\* the if / elif chain: return None when both arguments are falsy
TypeCheck(p) ==
    /\ procs[p].pc = "connected" /\ procs[p].op = "add"
    /\ procs' = [procs EXCEPT ![p].pc =
                   IF SubmissionType(procs[p].text, procs[p].doodle) = "invalid"
                   THEN "done" ELSE "typed"]
    /\ UNCHANGED <<rows, seq, files, nextUuid, last, wlock, pending, log>>

\* cursor.execute(INSERT ...) with the write lock free
ExecuteInsert(p) ==
    /\ procs[p].pc = "typed"
    /\ wlock = NoProc
    /\ wlock' = p
    /\ pending' = <<Row(NextId(seq), procs[p].text, procs[p].doodle,
                        SubmissionType(procs[p].text, procs[p].doodle))>>
    /\ procs' = [procs EXCEPT ![p].pc = "executed", ![p].rowid = NextId(seq)]
    /\ UNCHANGED <<rows, seq, files, nextUuid, last, log>>

\* cursor.execute(INSERT ...) while another connection writes: it raises
ExecuteLocked(p) ==
    /\ procs[p].pc = "typed"
    /\ wlock # NoProc
    /\ procs' = [procs EXCEPT ![p].pc = "raised"]
    /\ UNCHANGED <<rows, seq, files, nextUuid, last, wlock, pending, log>>

\* submission_id = cursor.lastrowid
ReadRowId(p) ==
    /\ procs[p].pc = "executed"
    /\ procs' = [procs EXCEPT ![p].pc = "fetched", ![p].sid = lastrowid(p)]
    /\ UNCHANGED <<rows, seq, files, nextUuid, last, wlock, pending, log>>

\* conn.commit()
Commit(p) ==
    /\ procs[p].pc = "fetched" /\ procs[p].op = "add"
    /\ wlock = p
    /\ rows' = rows \o pending
    /\ seq' = pending[1].id
    /\ pending' = <<>>
    /\ wlock' = NoProc
    /\ procs' = [procs EXCEPT ![p].pc = "committed"]
    /\ log' = log \cup {Event("commit", p, pending[1].id)}
    /\ UNCHANGED <<files, nextUuid, last>>

\* conn.close(); return submission_id
ReturnId(p) ==
    /\ procs[p].pc = "committed"
    /\ procs' = [procs EXCEPT ![p].pc = "done"]
    /\ log' = log \cup {Event("id", p, procs[p].sid)}
    /\ UNCHANGED <<rows, seq, files, nextUuid, last, wlock, pending>>

\* cursor.execute(SELECT ... ORDER BY RANDOM() LIMIT 1); cursor.fetchone()
ExecuteRandom(p) ==
    /\ procs[p].pc = "connected" /\ procs[p].op = "random"
    /\ \E pick \in RandomCandidates(rows) \cup {NoRow} :
         /\ pick = NoRow <=> RandomCandidates(rows) = {}
         /\ procs' = [procs EXCEPT ![p].pc = "fetched", ![p].sid = pick.id]
    /\ UNCHANGED <<rows, seq, files, nextUuid, last, wlock, pending, log>>

\* cursor.execute('SELECT COUNT(*) FROM submissions'); cursor.fetchone()[0]
ExecuteCount(p) ==
    /\ procs[p].pc = "connected" /\ procs[p].op = "count"
    /\ procs' = [procs EXCEPT ![p].pc = "fetched", ![p].sid = CountCommitted]
    /\ log' = log \cup {Event("count", p, CountCommitted)}
    /\ UNCHANGED <<rows, seq, files, nextUuid, last, wlock, pending>>

\* conn.close(); return the row, None or the count
ReturnRead(p) ==
    /\ procs[p].pc = "fetched" /\ procs[p].op \in {"random", "count"}
    /\ procs' = [procs EXCEPT ![p].pc = "done"]
    /\ UNCHANGED <<rows, seq, files, nextUuid, last, wlock, pending, log>>

NextConc ==
    \E p \in Callers :
        \/ ConnectAdd(p) \/ ConnectRead(p) \/ TypeCheck(p)
        \/ ExecuteInsert(p) \/ ExecuteLocked(p) \/ ReadRowId(p) \/ Commit(p) \/ ReturnId(p)
        \/ ExecuteRandom(p) \/ ExecuteCount(p) \/ ReturnRead(p)

SpecConc == InitConc /\ [][NextConc]_vars


Events(kind) == {e \in log : e.ev = kind}

\* C7, the state part: ids in the table are strictly increasing in insertion
\* order and the id being inserted exceeds them all; every id returned is the
\* id of the row holding the caller's own arguments; no two calls return the
\* same id; every count read is the number of inserts committed before it.
C7_State ==
    /\ \A i, j \in 1..Len(rows) : i < j => rows[i].id < rows[j].id
    /\ pending # <<>> => \A i \in 1..Len(rows) : rows[i].id < pending[1].id
    /\ \A e \in Events("id") :
         \E i \in 1..Len(rows) :
            /\ rows[i].id = e.id
            /\ rows[i].text_content = procs[e.p].text
            /\ rows[i].doodle_filename = procs[e.p].doodle
    /\ \A e, f \in Events("id") : e.p # f.p => e.id # f.id
    /\ \A e \in Events("count") : e.id = e.at
    /\ Len(rows) = Cardinality(Events("commit"))

\* C7: under every interleaving of the three store calls the state part
\* holds, and a row once inserted is never changed or removed.
C7_ConcurrentStore ==
    /\ []C7_State
    /\ [][Len(rows') >= Len(rows) /\ SubSeq(rows', 1, Len(rows)) = rows]_vars

\* two callers inserted, the first returned its id only after the second had
\* committed, and a count was read between the two commits
C7_Witness ==
    /\ Len(rows) = 2
    /\ \E e, f \in Events("id") : e.id = 1 /\ e.at = 2 /\ f.id = 2
    /\ \E c \in Events("count") : c.id = 1
    /\ \E p \in Callers : procs[p].pc = "done" /\ procs[p].op = "count"

====
